---- MODULE Spec2Model ----
(***************************************************************************)
(* City-page deployment scripts of the repository:                         *)
(*   deployer : src/new_website_deployer.py  (one city per run of main)    *)
(*   weather  : src/weather_updater.py       (city list, repo checked     *)
(*                                            before it is created)        *)
(*   updater  : src/new_website_updater.py   (city list, get-or-create)    *)
(* Strings are sequences of one-character tokens; the hosting platform is  *)
(* a map from repository names to file versions; every network call is a   *)
(* step whose outcome is drawn from the outcomes the call can have.        *)
(* Time advances only by sleeps (a call may return at once).               *)
(***************************************************************************)
EXTENDS Integers, Sequences, FiniteSets, TLC

(* ------------------------------ bounds -------------------------------- *)
\* longest list of city requests of one run
MaxCities == 2

(* -------------------------- program constants -------------------------- *)
DEPLOYMENT_DELAY_SECONDS == 180
OVERPASS_CALL_DELAY_SECONDS == 5
\* default of DEPLOY_DELAY in the updater
DefaultDeployDelay == 200
\* sleeps of the deployer
GeocodeSleep == 1
WikiSleep == 1
CategorySleep == 5
RepoReadySleep == 3
FilesSettleSleep == 5
\* sleep of the updater after creating a repository
UpdaterCreateSleep == 5

Programs == {"deployer", "weather", "updater"}

(* ------------------------------ strings -------------------------------- *)
Min(a, b) == IF a < b THEN a ELSE b

RECURSIVE Count(_, _)
\* str.count / number of occurrences of one character
Count(s, ch) ==
    IF s = <<>> THEN 0
    ELSE (IF Head(s) = ch THEN 1 ELSE 0) + Count(Tail(s), ch)

RECURSIVE DropChar(_, _)
\* str.replace(ch, '')
DropChar(s, ch) ==
    IF s = <<>> THEN <<>>
    ELSE IF Head(s) = ch THEN DropChar(Tail(s), ch)
    ELSE <<Head(s)>> \o DropChar(Tail(s), ch)

RECURSIVE MapChar(_, _, _)
\* str.replace(a, b) for single characters
MapChar(s, a, b) ==
    IF s = <<>> THEN <<>>
    ELSE <<IF Head(s) = a THEN b ELSE Head(s)>> \o MapChar(Tail(s), a, b)

LowerChar(ch) ==
    CASE ch = "A" -> "a"
      [] ch = "B" -> "b"
      [] ch = "T" -> "t"
      [] ch = "N" -> "n"
      [] OTHER -> ch

\* str.lower()
Lower(s) == [i \in 1..Len(s) |-> LowerChar(s[i])]

(* --------------------------- city requests ----------------------------- *)
\* "A-T": a City-State line whose state is in the table of states;
\* "B-N": one whose state is not; "B-B-T": a line with two hyphens;
\* "A": a line without a state
CityA == <<"A", "-", "T">>
CityN == <<"B", "-", "N">>
CityH == <<"B", "-", "B", "-", "T">>
CityO == <<"A">>
Cities == {CityA, CityN, CityH, CityO}

RECURSIVE SeqsUpTo(_, _)
SeqsUpTo(S, n) ==
    IF n = 0 THEN {<<>>}
    ELSE LET shorter == SeqsUpTo(S, n - 1)
         IN shorter \cup {Append(q, x) : q \in {r \in shorter : Len(r) = n - 1}, x \in S}

CityLists == {q \in SeqsUpTo(Cities, MaxCities) : Len(q) >= 1}

(* --------------------------- hosting platform -------------------------- *)
Files == {"index", "nojekyll", "workflow", "verify", "thankyou"}
\* a repository: the version (number of writes, 0 = absent) of each file,
\* the run whose document index.html holds, and whether serving is enabled
NewRepo == [ver |-> [f \in Files |-> 0], doc |-> 0, pages |-> FALSE]

UpdaterFiles == <<"verify", "thankyou", "nojekyll", "index">>
DeployerFiles == <<"index", "nojekyll", "workflow">>

VARIABLES
    prog,       \* which script runs
    entry,      \* "main": the script's main(); "call": process_city_deployment called directly
    token,      \* the credential environment variable is set
    env,        \* DEPLOY_DELAY of the environment: <<>> unset, <<d>> set to d
    cities,     \* the city requests, in input order
    idx,        \* position of the current city
    pc,         \* position in the script
    j,          \* inner loop position (category or file)
    calls,      \* kinds of network call made so far
    loc,        \* result of the resolver for the current city
    geo,        \* answer of the geocoding provider that the resolver just handled
    tagless,    \* a places result of the current city held an element without tags
    gapPlaces,  \* seconds slept since the last places call of this city
    lastPlaces, \* outcome of the latest places call of this city
    placesGap,  \* at the latest places call: <<gapPlaces, outcome of the call before>>
                \* (<<>>: first call of the city)
    gapCity,    \* seconds slept since the previous city ended
    startGap,   \* gapCity when the current city started (<<>>: first city)
    repos,      \* the hosting platform: name -> repository
    dests,      \* city -> names of the destinations published to for it
    lookup,     \* result of the destination lookup of the current publish
    hadDoc,     \* destination and its index.html existed when publish started
    raced,      \* the destination was created by someone else after the lookup
    lastWrite,  \* the latest file write call
    serving,    \* answers to the serving requests of the current publish, in order
    wrote,      \* files written in the current publish
    status,     \* per city: outcome of its pipeline
    fault,      \* component whose failure ended the current city, if any
    fatal,      \* a fatal error was reported
    record,     \* deployer: the record file written (none, success, error)
    arg,        \* pure functions: the arguments of the call under study
    res,        \* pure functions: its result
    fpc         \* pure functions: "idle", "input", "once" (rendered once) or "done"

config == <<prog, entry, token, env, cities>>
pure == <<arg, res, fpc>>
frame == <<config, pure>>
timing == <<gapPlaces, lastPlaces, placesGap, gapCity, startGap>>
hosting == <<repos, dests, lookup, hadDoc, raced, lastWrite, serving, wrote>>
vars == <<prog, entry, token, env, cities, idx, pc, j, calls, loc, geo, tagless, serving, wrote,
          arg, res, fpc, gapPlaces, lastPlaces, placesGap, gapCity, startGap, repos, dests, lookup, hadDoc,
          raced, lastWrite, status, fault, fatal, record>>

(* ------------------------- destination names --------------------------- *)
RunChar(run) == IF run = 1 THEN "1" ELSE IF run = 2 THEN "2" ELSE "n"

\* a name that differs from run to run (as a timestamp suffix would make it)
RepoNamePerRun(p, city) == <<p>> \o city \o <<RunChar(idx)>>

\* deployer: city_state.replace('-','').replace(' ','').lower()
\* weather : The-{city.replace(' ','-').replace(',','')}-Software-Guild
\* updater : The-{city.replace(' ','')}-Software-Guild
RepoName(p, city) ==
    CASE p = "deployer" -> Lower(DropChar(DropChar(city, "-"), " "))
      [] p = "weather" -> <<"The-">> \o DropChar(MapChar(city, " ", "-"), ",") \o <<"-Software-Guild">>
      [] OTHER -> <<"The-">> \o DropChar(city, " ") \o <<"-Software-Guild">>

City == cities[idx]
Name == RepoName(prog, City)

\* a write call: the file, create or update, the version token sent, the
\* file's version at the call, and whether the lookup before it found the file
NoWrite == [file |-> "none", op |-> "none", sha |-> 0, cur |-> 0, found |-> FALSE]

\* the pause is skipped after a city that did not complete
DeployDelayAfterSuccessOnly ==
    IF status[idx - 1] # "ok" THEN 0
    ELSE IF prog = "weather" THEN DEPLOYMENT_DELAY_SECONDS
    ELSE IF env = <<>> THEN DefaultDeployDelay ELSE env[1]

\* the inter-city delay of the running script
DeployDelay ==
    IF prog = "weather" THEN DEPLOYMENT_DELAY_SECONDS
    ELSE IF env = <<>> THEN DefaultDeployDelay ELSE env[1]

\* a sleep of d seconds
Slept(gap, d) == Min(gap + d, DefaultDeployDelay)

Exists(n) == n \in DOMAIN repos
Put(n, r) == [m \in DOMAIN repos \cup {n} |-> IF m = n THEN r ELSE repos[m]]
Target(c, n) == [dests EXCEPT ![c] = @ \cup {n}]

\* DEPLOY_DELAY values of the environment: unset, or a number of seconds
EnvDelays == {<<>>, <<3>>}

Init ==
    /\ prog \in Programs
    /\ entry \in (IF prog = "weather" THEN {"main", "call"} ELSE {"main"})
    /\ token \in (IF entry = "call" THEN {TRUE} ELSE BOOLEAN)
    /\ env \in (IF prog = "updater" THEN EnvDelays ELSE {<<>>})
    /\ cities \in CityLists
    /\ idx = 1
    /\ pc = "main"
    /\ j = 0
    /\ calls = {}
    /\ loc = "pending"
    /\ geo = "none"
    /\ tagless = FALSE
    /\ gapPlaces = 0
    /\ lastPlaces = "none"
    /\ placesGap = <<>>
    /\ gapCity = 0
    /\ startGap = <<>>
    /\ repos = <<>>
    /\ dests = [c \in Cities |-> {}]
    /\ lookup = "none"
    /\ hadDoc = FALSE
    /\ raced = FALSE
    /\ lastWrite = NoWrite
    /\ serving = <<>>
    /\ wrote = {}
    /\ status = [i \in 1..Len(cities) |-> "pending"]
    /\ fault = "none"
    /\ fatal = FALSE
    /\ record = "none"
    /\ arg = <<>>
    /\ res = <<>>
    /\ fpc = "idle"


(* ------------------------- outcomes of calls --------------------------- *)
\* geocoding provider: a match, no match, HTTP 403, another HTTP error,
\* a timeout, a payload without the expected fields
GeoOutcomes == {"ok", "zero", "403", "http", "timeout", "malformed"}
\* a provider call in general
CallOutcomes == {"ok", "fail"}
\* places provider: elements, elements one of which has no tags, a failure
PlacesOutcomes == {"ok", "tagless", "fail"}
\* a file write: done, refused with a 404, refused otherwise
WriteOutcomes == {"ok", "err404", "err"}

DeployerCategories == <<"barbers", "bars", "diners_cafes", "libraries", "attractions_amusements", "coffee_shops">>
WeatherCategories == <<"library", "bar", "restaurant", "barber">>

\* get_state_coordinates: the states of the table
KnownStates == {<<"T">>}
\* city_state.split('-'): the parts
RECURSIVE SplitDash(_)
SplitDash(s) ==
    IF Count(s, "-") = 0 THEN <<s>>
    ELSE LET i == CHOOSE n \in 1..Len(s) : s[n] = "-" /\ \A m \in 1..(n - 1) : s[m] # "-"
         IN <<SubSeq(s, 1, i - 1)>> \o SplitDash(SubSeq(s, i + 1, Len(s)))

\* the table has no state
get_state_coordinates_default(state) == "default"

\* get_state_coordinates: the state's coordinates, or the default ones
get_state_coordinates(state) == IF state \in KnownStates THEN "region" ELSE "default"

\* the pause is taken only after a places call that succeeded
PlacesPauseOnSuccess(p, o) ==
    IF o = "fail" THEN 0
    ELSE IF p = "deployer" THEN CategorySleep ELSE OVERPASS_CALL_DELAY_SECONDS

\* the pause tied to a places call: the deployer sleeps after each category
\* but the last, the weather script at the top of get_overpass_data
PlacesPause(p, o) ==
    IF p = "deployer" THEN CategorySleep ELSE OVERPASS_CALL_DELAY_SECONDS

(* --------------------------- ends of a city ---------------------------- *)
\* the city's pipeline returned to the loop of main (or to the caller)
Finish(st, flt) ==
    /\ status' = [status EXCEPT ![idx] = st]
    /\ fault' = flt
    /\ idx' = idx + 1
    /\ pc' = "loop"
    /\ gapCity' = 0

\* an exception left process_city_deployment: nothing in main catches it
Crash(flt) ==
    /\ status' = [status EXCEPT ![idx] = "crashed"]
    /\ fault' = flt
    /\ idx' = idx
    /\ pc' = "aborted"
    /\ gapCity' = gapCity

\* deployer: main() ended; the next run is a new process
EndRun(st, flt, rec) ==
    /\ status' = [status EXCEPT ![idx] = st]
    /\ fault' = flt
    /\ record' = rec
    /\ idx' = idx + 1
    /\ pc' = IF idx = Len(cities) THEN "finished" ELSE "main"
    /\ gapCity' = 0

\* state of one city's pipeline at its start
StartCity ==
    /\ j' = 0
    /\ loc' = "pending"
    /\ geo' = "none"
    /\ tagless' = FALSE
    /\ gapPlaces' = 0
    /\ lastPlaces' = "none"
    /\ placesGap' = <<>>
    /\ lookup' = "none"
    /\ hadDoc' = FALSE
    /\ raced' = FALSE
    /\ lastWrite' = NoWrite
    /\ serving' = <<>>
    /\ wrote' = {}
    /\ fault' = "none"
    /\ status' = [status EXCEPT ![idx] = "running"]

(* ============== updater: src/new_website_updater.py ==================== *)
\* main(): the credential check, the city list, the GitHub handle
U_Main ==
    /\ prog = "updater" /\ pc = "main"
    /\ IF ~token
       THEN /\ pc' = "aborted"
            /\ fatal' = TRUE
       ELSE /\ pc' = "loop"
            /\ fatal' = fatal
    /\ UNCHANGED <<frame, idx, j, calls, loc, geo, tagless, timing, hosting, status, fault, record>>

\* main(): the loop over the cities, with the pause before every city but the first
U_Loop ==
    /\ prog = "updater" /\ pc = "loop"
    /\ IF idx > Len(cities)
       THEN /\ pc' = "finished"
            /\ UNCHANGED <<j, loc, geo, tagless, timing, hosting, status, fault>>
       ELSE /\ pc' = "u_read"
            /\ gapCity' = IF idx > 1 THEN Slept(gapCity, DeployDelay) ELSE gapCity
            /\ startGap' = IF idx > 1 THEN <<Slept(gapCity, DeployDelay)>> ELSE <<>>
            /\ StartCity
            /\ UNCHANGED <<repos, dests>>
    /\ UNCHANGED <<frame, idx, calls, fatal, record>>

\* process_city_deployment: read_file(SOURCE_HTML_FILE), outside every try
U_Read ==
    /\ prog = "updater" /\ pc = "u_read"
    /\ \E found \in BOOLEAN :
         IF found
         THEN /\ pc' = "u_wiki"
              /\ UNCHANGED <<idx, status, fault, gapCity>>
         ELSE Crash("renderer")
    /\ UNCHANGED <<frame, j, calls, loc, geo, tagless, gapPlaces, lastPlaces, placesGap, startGap, hosting, fatal, record>>

\* get_wikipedia_summary: every exception is caught
U_Wiki ==
    /\ prog = "updater" /\ pc = "u_wiki"
    /\ calls' = calls \cup {"narrative"}
    /\ pc' = "u_geo"
    /\ UNCHANGED <<frame, idx, j, loc, geo, tagless, timing, hosting, status, fault, fatal, record>>

\* get_lat_lon: a match, or the default coordinates
U_Geo ==
    /\ prog = "updater" /\ pc = "u_geo"
    /\ calls' = calls \cup {"geocode"}
    /\ \E o \in GeoOutcomes :
         /\ geo' = o
         /\ loc' = IF o = "ok" THEN "exact" ELSE "default"
    /\ pc' = "u_render"
    /\ UNCHANGED <<frame, idx, j, tagless, timing, hosting, status, fault, fatal, record>>

\* the substitutions (lines 175-267), outside every try: re.sub raises
\* re.error when '\1' followed by the latitude reads as a group number
U_Render ==
    /\ prog = "updater" /\ pc = "u_render"
    /\ \E ok \in BOOLEAN :
         IF ok
         THEN /\ pc' = "u_getrepo"
              /\ UNCHANGED <<idx, status, fault, gapCity>>
         ELSE Crash("renderer")
    /\ geo' = "none"
    /\ UNCHANGED <<frame, j, calls, loc, tagless, gapPlaces, lastPlaces, placesGap, startGap, hosting, fatal, record>>

\* user.get_repo: any exception is read as "does not exist"
U_GetRepo ==
    /\ prog = "updater" /\ pc = "u_getrepo"
    /\ calls' = calls \cup {"hosting"}
    /\ hadDoc' = (Exists(Name) /\ repos[Name].ver["index"] > 0)
    /\ \E o \in CallOutcomes :
         IF Exists(Name) /\ o = "ok"
         THEN /\ lookup' = "found"
              /\ pc' = "u_file"
              /\ j' = 1
              /\ dests' = Target(City, Name)
         ELSE /\ lookup' = IF Exists(Name) THEN "error" ELSE "absent"
              /\ pc' = "u_create"
              /\ j' = j
              /\ dests' = dests
    /\ UNCHANGED <<frame, idx, loc, geo, tagless, timing, repos, raced, lastWrite, status, fault, fatal, record, serving, wrote>>

\* user.create_repo, then sleep(5); an exception goes to the outer except
U_Create ==
    /\ prog = "updater" /\ pc = "u_create"
    /\ calls' = calls \cup {"hosting"}
    /\ \/ /\ ~Exists(Name)
          /\ repos' = Put(Name, NewRepo)
          /\ dests' = Target(City, Name)
          /\ raced' = raced
          /\ gapCity' = Slept(gapCity, UpdaterCreateSleep)
          /\ pc' = "u_file"
          /\ j' = 1
          /\ UNCHANGED <<idx, status, fault>>
       \/ \* created by someone else since the lookup: the call answers 422
          /\ ~Exists(Name)
          /\ repos' = Put(Name, NewRepo)
          /\ raced' = TRUE
          /\ Finish("failed", "publisher")
          /\ UNCHANGED <<dests, j>>
       \/ \* the name is taken (the lookup had failed), or the call fails
          /\ Finish("failed", "publisher")
          /\ UNCHANGED <<repos, dests, raced, j>>
    /\ UNCHANGED <<frame, loc, geo, tagless, gapPlaces, lastPlaces, placesGap, startGap, lookup, hadDoc, lastWrite, fatal, record, serving, wrote>>

\* the file written last before the serving request
LastFile(k) == k = Len(UpdaterFiles)

\* "already enabled" ends the publish with an error
PagesFailureOnConflict(o) == o \in {"exception", "409"}

\* the answers to a serving request that end the publish with an error
PagesFailure(o) == o = "exception"

\* one file: get_contents and update_file(sha), or on any exception create_file
U_File ==
    /\ prog = "updater" /\ pc = "u_file"
    /\ calls' = calls \cup {"hosting"}
    /\ LET f == UpdaterFiles[j]
           r == repos[Name]
           v == r.ver[f]
           written == [r EXCEPT !.ver[f] = v + 1,
                                !.doc = IF f = "index" THEN idx ELSE @]
           next == /\ pc' = IF LastFile(j) THEN "u_pages" ELSE "u_file"
                   /\ j' = IF LastFile(j) THEN j ELSE j + 1
                   /\ wrote' = wrote \cup {f}
                   /\ UNCHANGED <<idx, status, fault, gapCity>>
           stop == /\ repos' = repos
                   /\ j' = j
                   /\ wrote' = wrote
                   /\ Finish("failed", "publisher")
       IN \/ \* the file is there and is read: update_file with its sha
             /\ v > 0
             /\ lastWrite' = [file |-> f, op |-> "update", sha |-> v, cur |-> v, found |-> TRUE]
             /\ repos' = Put(Name, written)
             /\ next
          \/ \* reading it raised (found = FALSE) or updating it raised (found =
             \* TRUE): create_file, refused for a file that exists
             /\ v > 0
             /\ \E found \in BOOLEAN :
                  lastWrite' = [file |-> f, op |-> "create", sha |-> 0, cur |-> v, found |-> found]
             /\ stop
          \/ \* the file is absent: create_file
             /\ v = 0
             /\ lastWrite' = [file |-> f, op |-> "create", sha |-> 0, cur |-> v, found |-> FALSE]
             /\ \E o \in CallOutcomes :
                  IF o = "ok"
                  THEN /\ repos' = Put(Name, written)
                       /\ next
                  ELSE stop
    /\ UNCHANGED <<frame, loc, geo, tagless, gapPlaces, lastPlaces, placesGap, startGap, dests, lookup, hadDoc, raced, fatal, record, serving>>

\* POST .../pages, on 409 PUT .../pages, then GET .../pages: no status code
\* is an error, an exception of requests goes to the outer except, and no
\* call has a timeout
U_Pages ==
    /\ prog = "updater" /\ pc = "u_pages"
    /\ calls' = calls \cup {"hosting"}
    /\ \E post \in {"201", "409", "other", "exception", "hang"},
          put \in {"204", "other", "exception", "hang"},
          get \in {"ok", "exception", "hang"} :
         LET answers == IF post \in {"exception", "hang"} THEN <<post>>
                        ELSE IF post # "409" THEN <<post, get>>
                        ELSE IF put \in {"exception", "hang"} THEN <<post, put>>
                        ELSE <<post, put, get>>
             last == answers[Len(answers)]
         IN /\ serving' = answers
            /\ repos' = IF post = "201" \/ (post = "409" /\ put = "204")
                        THEN Put(Name, [repos[Name] EXCEPT !.pages = TRUE])
                        ELSE repos
            /\ IF last = "hang"
               THEN /\ pc' = "hung"
                    /\ UNCHANGED <<idx, status, fault, gapCity>>
               ELSE IF \E i \in DOMAIN answers : PagesFailure(answers[i])
               THEN Finish("failed", "publisher")
               ELSE Finish("ok", "none")
    /\ UNCHANGED <<frame, j, loc, geo, tagless, gapPlaces, lastPlaces, placesGap, startGap, dests, lookup, hadDoc, raced, lastWrite, fatal, record, wrote>>

UpdaterNext ==
    \/ U_Main \/ U_Loop \/ U_Read \/ U_Wiki \/ U_Geo \/ U_Render
    \/ U_GetRepo \/ U_Create \/ U_File \/ U_Pages


(* ============== deployer: src/new_website_deployer.py ================== *)
\* main() of one run begins; GITHUB_TOKEN is not looked at
D_Main ==
    /\ prog = "deployer" /\ pc = "main"
    /\ pc' = "d_read"
    /\ calls' = {}
    /\ fatal' = FALSE
    /\ record' = "none"
    /\ startGap' = <<>>
    /\ StartCity
    /\ UNCHANGED <<frame, idx, gapCity, repos, dests>>

\* read_city_from_file: a content without a hyphen is refused
D_Read ==
    /\ prog = "deployer" /\ pc = "d_read"
    /\ IF Count(City, "-") = 0
       THEN EndRun("failed", "reader", "error")
       ELSE /\ pc' = "d_geo"
            /\ UNCHANGED <<idx, status, fault, record, gapCity>>
    /\ UNCHANGED <<frame, j, calls, loc, geo, tagless, gapPlaces, lastPlaces, placesGap, startGap, hosting, fatal>>

\* geocode_city: the split is outside the try; every provider failure
\* gives the state's coordinates or the default ones
D_Geo ==
    /\ prog = "deployer" /\ pc = "d_geo"
    /\ LET parts == SplitDash(City)
       IN IF Len(parts) # 2
          THEN /\ EndRun("failed", "resolver", "error")
               /\ UNCHANGED <<calls, loc, geo>>
          ELSE /\ calls' = calls \cup {"geocode"}
               /\ \E o \in GeoOutcomes :
                    /\ geo' = o
                    /\ loc' = IF o = "ok" THEN "exact" ELSE get_state_coordinates(parts[2])
               /\ pc' = "d_weather"
               /\ gapCity' = Slept(gapCity, GeocodeSleep)
               /\ UNCHANGED <<idx, status, fault, record>>
    /\ UNCHANGED <<frame, j, tagless, gapPlaces, lastPlaces, placesGap, startGap, hosting, fatal>>

\* get_weather_forecast: every exception is caught
D_Weather ==
    /\ prog = "deployer" /\ pc = "d_weather"
    /\ calls' = calls \cup {"weather"}
    /\ pc' = "d_wiki"
    /\ geo' = "none"
    /\ UNCHANGED <<frame, idx, j, loc, tagless, timing, hosting, status, fault, fatal, record>>

\* get_wikipedia_summary: every exception is caught
D_Wiki ==
    /\ prog = "deployer" /\ pc = "d_wiki"
    /\ calls' = calls \cup {"narrative"}
    /\ gapCity' = Slept(gapCity, WikiSleep)
    /\ pc' = "d_places"
    /\ j' = 1
    /\ UNCHANGED <<frame, idx, loc, geo, tagless, gapPlaces, lastPlaces, placesGap, startGap, hosting, status, fault, fatal, record>>

\* main(): one category: query_overpass_enhanced (exceptions caught),
\* process_business_data_enhanced, sleep(5) unless it was the last
D_Places ==
    /\ prog = "deployer" /\ pc = "d_places"
    /\ calls' = calls \cup {"places"}
    /\ placesGap' = IF j = 1 THEN <<>> ELSE <<gapPlaces, lastPlaces>>
    /\ \E o \in PlacesOutcomes :
         /\ lastPlaces' = o
         /\ gapPlaces' = IF j < Len(DeployerCategories)
                         THEN Slept(0, PlacesPause(prog, o)) ELSE 0
    /\ IF j < Len(DeployerCategories)
       THEN /\ j' = j + 1
            /\ pc' = pc
       ELSE /\ j' = j
            /\ pc' = "d_render"
    /\ UNCHANGED <<frame, idx, loc, geo, tagless, gapCity, startGap, hosting, status, fault, fatal, record>>

\* update_html_template: opens index.html, calls get_timezone_from_coords
D_Render ==
    /\ prog = "deployer" /\ pc = "d_render"
    /\ \E found \in BOOLEAN :
         IF found
         THEN /\ calls' = calls \cup {"timezone"}
              /\ pc' = "d_user"
              /\ UNCHANGED <<idx, status, fault, record, gapCity>>
         ELSE /\ EndRun("failed", "renderer", "error")
              /\ calls' = calls
    /\ UNCHANGED <<frame, j, loc, geo, tagless, gapPlaces, lastPlaces, placesGap, startGap, hosting, fatal>>

\* create_github_repo: Auth.Token(GITHUB_TOKEN), g.get_user().login
D_User ==
    /\ prog = "deployer" /\ pc = "d_user"
    /\ IF ~token
       THEN /\ EndRun("failed", "credential", "error")
            /\ fatal' = TRUE
            /\ UNCHANGED <<calls, hadDoc>>
       ELSE /\ calls' = calls \cup {"hosting"}
            /\ fatal' = fatal
            /\ hadDoc' = (Exists(Name) /\ repos[Name].ver["index"] > 0)
            /\ \E o \in CallOutcomes :
                 IF o = "ok"
                 THEN /\ pc' = "d_create"
                      /\ UNCHANGED <<idx, status, fault, record, gapCity>>
                 ELSE EndRun("failed", "publisher", "error")
    /\ UNCHANGED <<frame, j, loc, geo, tagless, gapPlaces, lastPlaces, placesGap, startGap, repos, dests, lookup, raced, lastWrite, serving, wrote>>

\* user.create_repo: 422 returns the URL, another GithubException is raised
D_Create ==
    /\ prog = "deployer" /\ pc = "d_create"
    /\ calls' = calls \cup {"hosting"}
    /\ \/ /\ ~Exists(Name)
          /\ repos' = Put(Name, NewRepo)
          /\ dests' = Target(City, Name)
          /\ raced' = raced
          /\ gapCity' = Slept(gapCity, RepoReadySleep)
          /\ pc' = "d_file"
          /\ j' = 1
          /\ UNCHANGED <<idx, status, fault, record>>
       \/ \* created by someone else in between: 422
          /\ ~Exists(Name)
          /\ repos' = Put(Name, NewRepo)
          /\ dests' = Target(City, Name)
          /\ raced' = TRUE
          /\ EndRun("ok", "none", "success")
          /\ j' = j
       \/ \* the repository exists: 422
          /\ Exists(Name)
          /\ dests' = Target(City, Name)
          /\ EndRun("ok", "none", "success")
          /\ UNCHANGED <<repos, raced, j>>
       \/ \* any other failure of the call
          /\ EndRun("failed", "publisher", "error")
          /\ UNCHANGED <<repos, dests, raced, j>>
    /\ UNCHANGED <<frame, loc, geo, tagless, gapPlaces, lastPlaces, placesGap, startGap, lookup, hadDoc, lastWrite, fatal, serving, wrote>>

\* one of files_to_push: create_file, a failure is logged and the loop goes on
D_File ==
    /\ prog = "deployer" /\ pc = "d_file"
    /\ calls' = calls \cup {"hosting"}
    /\ LET f == DeployerFiles[j]
           r == repos[Name]
           v == r.ver[f]
       IN /\ lastWrite' = [file |-> f, op |-> "create", sha |-> 0, cur |-> v, found |-> FALSE]
          /\ \E o \in CallOutcomes :
               IF o = "ok" /\ v = 0
               THEN /\ repos' = Put(Name, [r EXCEPT !.ver[f] = 1,
                                                    !.doc = IF f = "index" THEN idx ELSE @])
                    /\ wrote' = wrote \cup {f}
               ELSE /\ repos' = repos
                    /\ wrote' = wrote
    /\ IF j < Len(DeployerFiles)
       THEN /\ j' = j + 1
            /\ pc' = pc
            /\ gapCity' = gapCity
       ELSE /\ j' = j
            /\ pc' = "d_verify"
            /\ gapCity' = Slept(gapCity, FilesSettleSleep)
    /\ UNCHANGED <<frame, idx, loc, geo, tagless, gapPlaces, lastPlaces, placesGap, startGap, dests, lookup, hadDoc, raced, status, fault, fatal, record, serving>>

\* force_github_pages_deployment (every failure is caught), then main
\* writes deployment_success.txt
D_Verify ==
    /\ prog = "deployer" /\ pc = "d_verify"
    /\ calls' = calls \cup {"hosting"}
    /\ EndRun("ok", "none", "success")
    /\ UNCHANGED <<frame, j, loc, geo, tagless, gapPlaces, lastPlaces, placesGap, startGap, hosting, fatal>>

DeployerNext ==
    \/ D_Main \/ D_Read \/ D_Geo \/ D_Weather \/ D_Wiki \/ D_Places \/ D_Render
    \/ D_User \/ D_Create \/ D_File \/ D_Verify

(* =============== weather: src/weather_updater.py ======================= *)
\* main(): without GH_TOKEN it exits; with it, line 370 names the module
\* `github`, which the script never imports (only `from github import
\* Github`): the NameError is caught as an authentication failure and the
\* script exits before it reads the city list
W_Main ==
    /\ prog = "weather" /\ entry = "main" /\ pc = "main"
    /\ fatal' = TRUE
    /\ pc' = "aborted"
    /\ UNCHANGED <<frame, idx, j, calls, loc, geo, tagless, timing, hosting, status, fault, record>>

\* process_city_deployment(g, user, token, city) called directly, once per request
W_Call ==
    /\ prog = "weather" /\ entry = "call" /\ pc \in {"main", "loop"}
    /\ IF idx > Len(cities)
       THEN /\ pc' = "finished"
            /\ UNCHANGED <<j, loc, geo, tagless, timing, hosting, status, fault>>
       ELSE /\ pc' = "w_geo"
            /\ startGap' = <<>>
            /\ gapCity' = gapCity
            /\ StartCity
            /\ UNCHANGED <<repos, dests>>
    /\ UNCHANGED <<frame, idx, calls, fatal, record>>

\* get_coordinates_and_bbox: None on no match and on a RequestException;
\* the caller then skips the city; another exception is not caught
W_Geo ==
    /\ prog = "weather" /\ pc = "w_geo"
    /\ calls' = calls \cup {"geocode"}
    /\ \E o \in GeoOutcomes :
         /\ geo' = o
         /\ CASE o = "ok" ->
                /\ loc' = "exact"
                /\ pc' = "w_wiki"
                /\ UNCHANGED <<idx, status, fault, gapCity>>
           [] o = "malformed" ->
                /\ loc' = loc
                /\ Crash("resolver")
           [] OTHER ->
                /\ loc' = "none"
                /\ Finish("skipped", "resolver")
    /\ UNCHANGED <<frame, j, tagless, gapPlaces, lastPlaces, placesGap, startGap, hosting, fatal, record>>

\* get_wikipedia_summary: a RequestException moves on to the next query
W_Wiki ==
    /\ prog = "weather" /\ pc = "w_wiki"
    /\ calls' = calls \cup {"narrative"}
    /\ pc' = "w_places"
    /\ j' = 1
    /\ geo' = "none"
    /\ UNCHANGED <<frame, idx, loc, tagless, timing, hosting, status, fault, fatal, record>>

\* get_overpass_data: the sleep, then the query; a RequestException gives None
W_Places ==
    /\ prog = "weather" /\ pc = "w_places"
    /\ calls' = calls \cup {"places"}
    /\ placesGap' = IF j = 1 THEN <<>>
                    ELSE <<Slept(gapPlaces, PlacesPause(prog, "ok")), lastPlaces>>
    /\ gapPlaces' = 0
    /\ gapCity' = Slept(gapCity, PlacesPause(prog, "ok"))
    /\ \E o \in PlacesOutcomes :
         /\ lastPlaces' = o
         /\ tagless' = (tagless \/ o = "tagless")
    /\ IF j < Len(WeatherCategories)
       THEN /\ j' = j + 1
            /\ pc' = pc
       ELSE /\ j' = j
            /\ pc' = "w_template"
    /\ UNCHANGED <<frame, idx, loc, geo, startGap, hosting, status, fault, fatal, record>>

\* the template is read from the base repository; a failure ends the city
W_Template ==
    /\ prog = "weather" /\ pc = "w_template"
    /\ calls' = calls \cup {"hosting"}
    /\ \E o \in CallOutcomes :
         IF o = "ok"
         THEN /\ pc' = "w_render"
              /\ UNCHANGED <<idx, status, fault, gapCity>>
         ELSE Finish("failed", "renderer")
    /\ UNCHANGED <<frame, j, loc, geo, tagless, gapPlaces, lastPlaces, placesGap, startGap, hosting, fatal, record>>

\* the replacements; get_venue_html reads element['tags'] of every element
W_Render ==
    /\ prog = "weather" /\ pc = "w_render"
    /\ IF tagless
       THEN Crash("aggregator")
       ELSE /\ pc' = "w_getrepo"
            /\ UNCHANGED <<idx, status, fault, gapCity>>
    /\ UNCHANGED <<frame, j, calls, loc, geo, tagless, gapPlaces, lastPlaces, placesGap, startGap, hosting, fatal, record>>

\* g.get_user().get_repo(repo_name): a 404 leads to create_repo
W_GetRepo ==
    /\ prog = "weather" /\ pc = "w_getrepo"
    /\ calls' = calls \cup {"hosting"}
    /\ hadDoc' = (Exists(Name) /\ repos[Name].ver["index"] > 0)
    /\ \/ /\ Exists(Name)
          /\ lookup' = "found"
          /\ dests' = Target(City, Name)
          /\ pc' = "w_write"
          /\ UNCHANGED <<idx, status, fault, gapCity>>
       \/ /\ ~Exists(Name)
          /\ lookup' = "absent"
          /\ dests' = dests
          /\ pc' = "w_create"
          /\ UNCHANGED <<idx, status, fault, gapCity>>
       \/ \* a failure that is no 404
          /\ lookup' = "error"
          /\ dests' = dests
          /\ Finish("failed", "publisher")
    /\ UNCHANGED <<frame, j, loc, geo, tagless, gapPlaces, lastPlaces, placesGap, startGap, repos, raced, lastWrite, fatal, record, serving, wrote>>

\* get_content_sha, then update_file(sha) or create_file; an exception
\* whose text has "404" or "Not Found" leads to create_repo
W_Write ==
    /\ prog = "weather" /\ pc = "w_write"
    /\ calls' = calls \cup {"hosting"}
    /\ LET r == repos[Name]
           v == r.ver["index"]
           written == [r EXCEPT !.ver["index"] = v + 1, !.doc = idx]
           after(o) ==
               CASE o = "ok" -> /\ repos' = Put(Name, written)
                                /\ wrote' = wrote \cup {"index"}
                                /\ Finish("ok", "none")
                 [] o = "err404" -> /\ repos' = repos
                                    /\ wrote' = wrote
                                    /\ pc' = "w_create"
                                    /\ UNCHANGED <<idx, status, fault, gapCity>>
                 [] OTHER -> /\ repos' = repos
                             /\ wrote' = wrote
                             /\ Finish("failed", "publisher")
       IN \/ \* the sha was fetched: update_file
             /\ v > 0
             /\ lastWrite' = [file |-> "index", op |-> "update", sha |-> v, cur |-> v, found |-> TRUE]
             /\ \E o \in WriteOutcomes : after(o)
          \/ \* no sha (the file is absent, or fetching it failed): create_file
             /\ lastWrite' = [file |-> "index", op |-> "create", sha |-> 0, cur |-> v, found |-> FALSE]
             /\ \E o \in (IF v > 0 THEN {"err"} ELSE WriteOutcomes) : after(o)
    /\ UNCHANGED <<frame, j, loc, geo, tagless, gapPlaces, lastPlaces, placesGap, startGap, dests, lookup, hadDoc, raced, fatal, record, serving>>

\* user.create_repo; its failure ends the city
W_Create ==
    /\ prog = "weather" /\ pc = "w_create"
    /\ calls' = calls \cup {"hosting"}
    /\ \/ /\ ~Exists(Name)
          /\ repos' = Put(Name, NewRepo)
          /\ dests' = Target(City, Name)
          /\ raced' = raced
          /\ pc' = "w_newfile"
          /\ UNCHANGED <<idx, status, fault, gapCity>>
       \/ \* created by someone else since the lookup: 422
          /\ ~Exists(Name)
          /\ repos' = Put(Name, NewRepo)
          /\ dests' = dests
          /\ raced' = TRUE
          /\ Finish("failed", "publisher")
       \/ \* the name is taken, or the call fails
          /\ Finish("failed", "publisher")
          /\ UNCHANGED <<repos, dests, raced>>
    /\ UNCHANGED <<frame, j, loc, geo, tagless, gapPlaces, lastPlaces, placesGap, startGap, lookup, hadDoc, lastWrite, fatal, record, serving, wrote>>

\* new_repo.create_file of index.html
W_NewFile ==
    /\ prog = "weather" /\ pc = "w_newfile"
    /\ calls' = calls \cup {"hosting"}
    /\ LET r == repos[Name]
           v == r.ver["index"]
       IN /\ lastWrite' = [file |-> "index", op |-> "create", sha |-> 0, cur |-> v, found |-> FALSE]
          /\ \E o \in CallOutcomes :
               IF o = "ok" /\ v = 0
               THEN /\ repos' = Put(Name, [r EXCEPT !.ver["index"] = 1, !.doc = idx])
                    /\ wrote' = wrote \cup {"index"}
                    /\ Finish("ok", "none")
               ELSE /\ repos' = repos
                    /\ wrote' = wrote
                    /\ Finish("failed", "publisher")
    /\ UNCHANGED <<frame, j, loc, geo, tagless, gapPlaces, lastPlaces, placesGap, startGap, dests, lookup, hadDoc, raced, fatal, record, serving>>

WeatherNext ==
    \/ W_Main \/ W_Call \/ W_Geo \/ W_Wiki \/ W_Places \/ W_Template
    \/ W_Render \/ W_GetRepo \/ W_Write \/ W_Create \/ W_NewFile

Next == UpdaterNext \/ DeployerNext \/ WeatherNext

Spec == Init /\ [][Next]_vars

\* a script is one sequential process: while it has a next step it takes it
SpecFair == Spec /\ WF_vars(Next)

(* ====================== listings of one category ======================= *)
\* The listing functions are pure: they are studied one call at a time. The
\* variables of a run stay at rest while a call is studied.
run == <<config, idx, pc, j, calls, loc, geo, tagless, timing, hosting, status, fault, fatal, record>>

AtRest ==
    /\ prog = "deployer" /\ entry = "main" /\ token = FALSE /\ env = <<>>
    /\ cities = <<>> /\ idx = 1 /\ pc = "finished" /\ j = 0 /\ calls = {}
    /\ loc = "pending" /\ geo = "none" /\ tagless = FALSE
    /\ gapPlaces = 0 /\ lastPlaces = "none" /\ placesGap = <<>>
    /\ gapCity = 0 /\ startGap = <<>>
    /\ repos = <<>> /\ dests = [c \in Cities |-> {}] /\ lookup = "none"
    /\ hadDoc = FALSE /\ raced = FALSE /\ lastWrite = NoWrite
    /\ serving = <<>> /\ wrote = {}
    /\ status = <<>> /\ fault = "none" /\ fatal = FALSE /\ record = "none"

\* most elements in a places result
MaxElems == 4
\* new_website_deployer keeps this many businesses per category
BusinessesKept == 3
\* weather_updater shows this many elements per venue type
VenuesShown == 3

\* An element of a places result: whether it has a 'tags' member, whether
\* the tags hold a 'name', and the name (a sequence of pieces of text).
Element(t, n, nm) == [tags |-> t, named |-> n, name |-> nm]

Elements ==
    { Element(FALSE, FALSE, <<>>),
      Element(TRUE, FALSE, <<>>),
      Element(TRUE, TRUE, <<" ">>),
      Element(TRUE, TRUE, <<"x">>),
      Element(TRUE, TRUE, <<" ", "x">>),
      Element(TRUE, TRUE, <<"y">>),
      Element(TRUE, TRUE, <<"z">>),
      Element(TRUE, TRUE, <<"Professional Cuts">>) }

BusinessCategories ==
    {"barbers", "coffee_shops", "bars", "diners_cafes", "libraries", "attractions_amusements"}
VenueTypes == {"libraries", "bars", "restaurants", "barbers"}
PoiKeys == {"libraries", "bars", "restaurants", "barbers"}

RECURSIVE StripLeft(_)
StripLeft(s) == IF s # <<>> /\ Head(s) = " " THEN StripLeft(Tail(s)) ELSE s

RECURSIVE StripRight(_)
StripRight(s) ==
    IF s # <<>> /\ s[Len(s)] = " " THEN StripRight(SubSeq(s, 1, Len(s) - 1)) ELSE s

\* str.strip
Strip(s) == StripRight(StripLeft(s))

\* the names of the fallback businesses of a category, in order
get_business_fallbacks(category, city) ==
    CASE category = "barbers" ->
            << city \o <<" Barber Shop">>, <<"Professional Cuts">>, <<"Classic Barbers">> >>
      [] category = "coffee_shops" ->
            << city \o <<" Coffee House">>, <<"Downtown Cafe">>, <<"Brew & Bean">> >>
      [] category = "bars" ->
            << city \o <<" Pub">>, <<"City Bar">>, <<"Local Tavern">> >>
      [] category = "diners_cafes" ->
            << city \o <<" Family Diner">>, <<"Local Cafe">>, <<"City Grill">> >>
      [] category = "libraries" ->
            << city \o <<" Public Library">>, <<"Regional Library">>, <<"Community Library">> >>
      [] category = "attractions_amusements" ->
            << city \o <<" Community Park">>, <<"Local Museum">>, <<"City Gardens">> >>
      [] OTHER -> <<>>

\* tags.get('name', 'Unnamed Business').strip(), tags = business.get('tags', {})
BusinessName(business) ==
    Strip(IF business.tags /\ business.named THEN business.name ELSE <<"Unnamed Business">>)

RECURSIVE BusinessLoop(_, _, _)
\* the loop over the provider's elements: nameless and repeated names are
\* passed over, the loop stops at BusinessesKept
BusinessLoop(businesses, processed, seen_names) ==
    IF businesses = <<>> THEN [processed |-> processed, seen_names |-> seen_names]
    ELSE LET name == BusinessName(Head(businesses)) IN
         IF name = <<>> \/ name \in seen_names
         THEN BusinessLoop(Tail(businesses), processed, seen_names)
         ELSE IF Len(processed) + 1 >= BusinessesKept
              THEN [processed |-> Append(processed, name), seen_names |-> seen_names \cup {name}]
              ELSE BusinessLoop(Tail(businesses), Append(processed, name), seen_names \cup {name})

RECURSIVE FallbackLoopUnchecked(_, _, _)
\* fallbacks are added without a look at the names already held
FallbackLoopUnchecked(fallbacks, processed, seen_names) ==
    IF fallbacks = <<>> THEN processed
    ELSE IF Len(processed) < BusinessesKept
         THEN FallbackLoopUnchecked(Tail(fallbacks), Append(processed, Head(fallbacks)), seen_names)
         ELSE processed

RECURSIVE FallbackLoop(_, _, _)
\* the loop over the fallbacks: one is added while fewer than BusinessesKept
\* are held and its name is new
FallbackLoop(fallbacks, processed, seen_names) ==
    IF fallbacks = <<>> THEN processed
    ELSE IF Len(processed) < BusinessesKept /\ Head(fallbacks) \notin seen_names
         THEN FallbackLoop(Tail(fallbacks), Append(processed, Head(fallbacks)),
                           seen_names \cup {Head(fallbacks)})
         ELSE FallbackLoop(Tail(fallbacks), processed, seen_names)

\* the fallbacks are listed first and the provider's businesses after them
process_business_data_fallbacks_first(businesses, category, city) ==
    LET synthetic == FallbackLoop(get_business_fallbacks(category, city), <<>>, {})
        real == BusinessLoop(businesses, <<>>, {})
    IN SubSeq(synthetic \o real.processed, 1, BusinessesKept)

\* new_website_deployer: the names of the businesses listed for a category
\* (address, phone and website of an entry are left out)
process_business_data_enhanced(businesses, category, city) ==
    LET real == BusinessLoop(businesses, <<>>, {}) IN
    IF Len(real.processed) < BusinessesKept
    THEN FallbackLoop(get_business_fallbacks(category, city), real.processed, real.seen_names)
    ELSE real.processed

\* weather_updater: the <li> items of the list made for a venue type, or an
\* exception (KeyError: an element without 'tags')
get_venue_html(overpass_data, venue_type) ==
    IF ~overpass_data.present \/ overpass_data.elements = <<>>
    THEN [raised |-> FALSE, items |-> << <<"No ", venue_type, " found in this area.">> >>]
    ELSE LET shown == SubSeq(overpass_data.elements, 1,
                             Min(Len(overpass_data.elements), VenuesShown))
         IN IF \E i \in DOMAIN shown : ~shown[i].tags
            THEN [raised |-> TRUE, items |-> <<>>]
            ELSE [raised |-> FALSE,
                  items |-> [i \in DOMAIN shown |->
                                IF shown[i].named THEN shown[i].name
                                ELSE <<"Unnamed ", venue_type>>]]

\* new_website_updater: the names of the (mock) places of a category
find_local_poi_data(city, key) ==
    CASE key = "libraries" ->
            << city \o <<" Central Library">>, <<"North ">> \o city \o <<" Community Library">>,
               city \o <<" Tech Center Library">> >>
      [] key = "bars" ->
            << <<"The Code Bar & Grill">>, <<"The Python Pub">>, <<"The Git Grind Coffee">> >>
      [] key = "restaurants" ->
            << <<"The Data Diner">>, <<"The Algorithm Eatery">>, <<"SQL Steakhouse">> >>
      [] OTHER ->
            << city \o <<" Slickers Barbershop">>, <<"The Fade Factory">>,
               <<"Executive Cuts - {city}">> >>

\* the calls studied: the function, the provider's answer, category and city
ListingCalls ==
    [fn : {"deployer"}, present : {TRUE}, elements : SeqsUpTo(Elements, MaxElems),
     category : BusinessCategories, city : {<<"A">>}]
    \cup [fn : {"weather"}, present : {TRUE}, elements : SeqsUpTo(Elements, MaxElems),
          category : VenueTypes, city : {<<"A">>}]
    \cup [fn : {"weather"}, present : {FALSE}, elements : {<<>>},
          category : VenueTypes, city : {<<"A">>}]
    \cup [fn : {"updater"}, present : {TRUE}, elements : {<<>>},
          category : PoiKeys, city : {<<"A">>}]

InitListings ==
    /\ AtRest
    /\ arg \in ListingCalls
    /\ res = <<>>
    /\ fpc = "input"

L_Businesses ==
    /\ fpc = "input" /\ arg.fn = "deployer"
    /\ res' = [raised |-> FALSE,
               items |-> process_business_data_enhanced(arg.elements, arg.category, arg.city)]
    /\ fpc' = "done"
    /\ UNCHANGED <<run, arg>>

L_Venues ==
    /\ fpc = "input" /\ arg.fn = "weather"
    /\ res' = get_venue_html([present |-> arg.present, elements |-> arg.elements], arg.category)
    /\ fpc' = "done"
    /\ UNCHANGED <<run, arg>>

L_Poi ==
    /\ fpc = "input" /\ arg.fn = "updater"
    /\ res' = [raised |-> FALSE, items |-> find_local_poi_data(arg.city, arg.category)]
    /\ fpc' = "done"
    /\ UNCHANGED <<run, arg>>

NextListings == L_Businesses \/ L_Venues \/ L_Poi

SpecListings == InitListings /\ [][NextListings]_vars

(* ============================== rendering ============================== *)
\* A document is a sequence of pieces of text. A piece is a marker of the
\* template (a tag, a placeholder, a city name, a number) or other text, and
\* no rule matches across a part of a piece. The documents studied are one
\* line long, text replacement is done piece by piece, and the patterns of
\* the scripts are matched as the regular-expression engine matches them:
\* leftmost first, each ".*?" as short as it can be, one match after another.

\* most segments of a base document
MaxSegments == 3

\* the least of a set of positions; 0 if there is none
First(I) == IF I = {} THEN 0 ELSE CHOOSE i \in I : \A k \in I : i <= k

\* the pieces of `old` stand in s from position i on
Occurs(s, old, i) ==
    /\ i + Len(old) - 1 <= Len(s)
    /\ SubSeq(s, i, i + Len(old) - 1) = old

RECURSIVE Flatten(_)
\* ''.join
Flatten(ss) == IF ss = <<>> THEN <<>> ELSE Head(ss) \o Flatten(Tail(ss))

RECURSIVE Replace(_, _, _)
\* str.replace(old, new), old not empty
Replace(s, old, new) ==
    LET i == First({k \in 1..Len(s) : Occurs(s, old, k)})
    IN IF i = 0 THEN s
       ELSE SubSeq(s, 1, i - 1) \o new \o Replace(SubSeq(s, i + Len(old), Len(s)), old, new)

\* the first position from `from` on that holds the piece t; 0 if none
Find(s, t, from) == First({i \in from..Len(s) : s[i] = t})

RECURSIVE ChainEnd(_, _, _)
\* where the markers, met in order with anything between them, end when
\* looked for from position `from` on; 0 if they are not all met
ChainEnd(s, markers, from) ==
    IF markers = <<>> THEN from - 1
    ELSE LET i == Find(s, Head(markers), from)
         IN IF i = 0 THEN 0 ELSE ChainEnd(s, Tail(markers), i + 1)

\* the first match of the pattern  m1 .*? m2 .*? ... mk : its two ends
FirstMatch(s, markers) ==
    LET a == Find(s, Head(markers), 1)
        b == IF a = 0 THEN 0 ELSE ChainEnd(s, Tail(markers), a + 1)
    IN [from |-> a, to |-> b]

RECURSIVE SubChain(_, _, _)
\* re.sub(m1.*?m2...mk, new, s, flags=re.DOTALL)
SubChain(s, markers, new) ==
    LET m == FirstMatch(s, markers)
    IN IF m.to = 0 THEN s
       ELSE SubSeq(s, 1, m.from - 1) \o new
            \o SubChain(SubSeq(s, m.to + 1, Len(s)), markers, new)

RECURSIVE CountChain(_, _)
\* len(re.findall(m1.*?m2...mk, s, re.DOTALL))
CountChain(s, markers) ==
    LET m == FirstMatch(s, markers)
    IN IF m.to = 0 THEN 0 ELSE 1 + CountChain(SubSeq(s, m.to + 1, Len(s)), markers)

\* re.search(m1.*?m2...mk, s, re.DOTALL)
Search(s, markers) == FirstMatch(s, markers).to # 0

\* prefix, one piece of the class and suffix stand in s from position i on
ValueAt(s, prefix, class, suffix, i) ==
    /\ Occurs(s, prefix, i)
    /\ i + Len(prefix) <= Len(s)
    /\ s[i + Len(prefix)] \in class
    /\ Occurs(s, suffix, i + Len(prefix) + 1)

RECURSIVE SubValue(_, _, _, _, _)
\* re.sub(prefix + [class]+ + suffix, new, s): the value is one piece
SubValue(s, prefix, class, suffix, new) ==
    LET i == First({k \in 1..Len(s) : ValueAt(s, prefix, class, suffix, k)})
        n == Len(prefix) + 1 + Len(suffix)
    IN IF i = 0 THEN s
       ELSE SubSeq(s, 1, i - 1) \o new
            \o SubValue(SubSeq(s, i + n, Len(s)), prefix, class, suffix, new)

\* the pieces that are tags (they begin with "<")
Tags ==
    { "<title>", "</title>", "<p class=mission-text>", "<p>", "</p>",
      "<ul class=library-list>", "<ul class=jobs-list>", "<ul class=news-list>",
      "<ul class=barber-list>", "<ul class=business-list>", "<ul>", "</ul>",
      "<li>", "</li>", "<strong>", "</strong>",
      "<section id=paoli-ok>", "</section>", "<h2>", "</h2>",
      "<h3>Barbershops</h3>", "<h3>Coffee Shops</h3>", "<h3>Diners & Cafes</h3>",
      "<h3>Local Bars & Pubs</h3>", "<h3>Libraries</h3>",
      "<h3>Attractions & Amusements</h3>",
      "<!-- LIBRARIES_PLACEHOLDER -->", "<!-- BARS_PLACEHOLDER -->",
      "<!-- RESTAURANTS_PLACEHOLDER -->", "<!-- BARBERS_PLACEHOLDER -->",
      "<!-- OSM_CITATION_PLACEHOLDER -->", "<!-- NOAA_CITATION_PLACEHOLDER -->" }

\* the last position of the run of pieces without "<" that starts at `from`
RunEnd(s, from) ==
    LET t == First({k \in from..Len(s) : s[k] \in Tags})
    IN IF t = 0 THEN Len(s) ELSE t - 1

\* the prefix stands at position i, and text without "<" follows it
RunAt(s, prefix, i) == i < Len(s) /\ s[i] = prefix /\ s[i + 1] \notin Tags

RECURSIVE SubRun(_, _, _)
\* re.sub(prefix + [^<]+, new, s)
SubRun(s, prefix, new) ==
    LET i == First({k \in 1..Len(s) : RunAt(s, prefix, k)})
    IN IF i = 0 THEN s
       ELSE SubSeq(s, 1, i - 1) \o new
            \o SubRun(SubSeq(s, RunEnd(s, i + 1) + 1, Len(s)), prefix, new)

\* re.search(prefix + [^<]+, s)
SearchRun(s, prefix) == \E i \in 1..Len(s) : RunAt(s, prefix, i)

(* ----------------------------- coordinates ----------------------------- *)
\* A coordinate with the texts the scripts make of it: str(x) character by
\* character as far as the scripts look at characters, str(x) as one piece,
\* f'{x:.2f}' and f'{abs(x):.2f}'.
Coordinate(c, s, f, a) == [chars |-> c, str |-> s, fixed2 |-> f, absfixed2 |-> a]

Latitudes ==
    { Coordinate(<<"3", "5", ".4822">>, "35.4822", "35.48", "35.48"),
      Coordinate(<<"3", "9", ".7392">>, "39.7392", "39.74", "39.74"),
      Coordinate(<<"-", "3", "3", ".8688">>, "-33.8688", "-33.87", "33.87") }

Longitudes ==
    { Coordinate(<<"-", "9", "7", ".5215">>, "-97.5215", "-97.52", "97.52"),
      Coordinate(<<"1", "5", "1", ".2093">>, "151.2093", "151.21", "151.21") }

\* pieces matched by [\d.-]+
Numbers ==
    {"34.83", "97.26", "35.4676", "-97.5164", "35.4822", "-97.5215"}
    \cup {c.str : c \in Latitudes \cup Longitudes}
    \cup {c.fixed2 : c \in Latitudes \cup Longitudes}
    \cup {c.absfixed2 : c \in Latitudes \cup Longitudes}

\* pieces matched by [\w/]+
TimeZones == {"America/Chicago", "America/New_York"}

Digits == {"0", "1", "2", "3", "4", "5", "6", "7", "8", "9"}
OctDigits == {"0", "1", "2", "3", "4", "5", "6", "7"}

\* How the replacement template r'\1' + value + r'\3' begins: "\1" and a
\* character that is no digit is group 1; "\1" and two octal digits is the
\* character of that octal code; "\1" and a digit otherwise is group 10..19,
\* which the pattern does not have (re.error).
AfterGroupOne(value) ==
    IF value = <<>> \/ value[1] \notin Digits THEN "group"
    ELSE IF Len(value) >= 2 /\ value[1] \in OctDigits /\ value[2] \in OctDigits THEN "octal"
    ELSE "error"

\* what the template r'\1' + value + r'\3' puts for a match open...close
Expand(open, value, close) ==
    IF AfterGroupOne(value) = "group"
    THEN <<open>> \o value \o <<close>>
    ELSE <<"chr(0o1", value[1], value[2], ")">> \o SubSeq(value, 3, Len(value)) \o <<close>>

(* --------------------------- weather_updater --------------------------- *)
ParagraphOKC ==
    << "Oklahoma City", " (", "OKC",
       ") is the capital and largest city of Oklahoma. ... corporate sectors. ",
       "OKC", " is famous for the Bricktown Entertainment District ... Thunder team." >>

\* the text of get_venue_html (link and address of an item are left out)
VenueHtml(venues) ==
    <<"<ul>">>
    \o Flatten([i \in DOMAIN venues.items |-> <<"<li>">> \o venues.items[i] \o <<"</li>">>])
    \o <<"</ul>">>

\* steps 5a-5e of process_city_deployment
RenderWeather(doc, b) ==
    LET data == [present |-> TRUE, elements |-> b.elements]
        html(t) == VenueHtml(get_venue_html(data, t))
        a1 == Replace(doc, <<"Oklahoma City">>, b.city)
        a2 == Replace(a1, <<"OKC">>, b.city)
        b1 == Replace(a2, <<"35.4676">>, <<b.lat.str>>)
        b2 == Replace(b1, <<"-97.5164">>, <<b.lon.str>>)
        c1 == Replace(b2, ParagraphOKC, b.summary)
        d1 == Replace(c1, <<"<!-- LIBRARIES_PLACEHOLDER -->">>, html("libraries"))
        d2 == Replace(d1, <<"<!-- BARS_PLACEHOLDER -->">>, html("bars"))
        d3 == Replace(d2, <<"<!-- RESTAURANTS_PLACEHOLDER -->">>, html("restaurants"))
        d4 == Replace(d3, <<"<!-- BARBERS_PLACEHOLDER -->">>, html("barbers"))
        e1 == Replace(d4, <<"<!-- OSM_CITATION_PLACEHOLDER -->">>, <<"(c) OpenStreetMap contributors">>)
        e2 == Replace(e1, <<"<!-- NOAA_CITATION_PLACEHOLDER -->">>, <<"NOAA National Weather Service">>)
    IN IF get_venue_html(data, "libraries").raised
       THEN [raised |-> TRUE, doc |-> <<>>]
       ELSE [raised |-> FALSE, doc |-> e2]

(* ------------------------- new_website_updater ------------------------- *)
SEARCH_TERM == "Oklahoma City"

\* the description of the city in the second mission paragraph
FamousText(city) ==
    city \o << " is famous for its historical roots ... corporate sectors. ",
               "OKC", " is famous for the Bricktown Entertainment District ... Thunder team." >>

poi_map ==
    << <<"<ul class=library-list>", "libraries">>, <<"<ul class=jobs-list>", "bars">>,
       <<"<ul class=news-list>", "restaurants">>, <<"<ul class=barber-list>", "barbers">> >>

\* create_list_items (the link of an item is left out)
create_list_items(poi_list) ==
    Flatten([i \in DOMAIN poi_list |-> <<"<li>", "**">> \o poi_list[i] \o <<"**", "</li>">>])

RECURSIVE PoiLoop(_, _, _)
PoiLoop(s, map, city) ==
    IF map = <<>> THEN s
    ELSE LET ul == Head(map)[1]
             items == create_list_items(find_local_poi_data(city, Head(map)[2]))
         IN PoiLoop(SubChain(s, <<ul, "</ul>">>, <<ul>> \o items \o <<"</ul>">>), Tail(map), city)

\* lines 174-268 of process_city_deployment
RenderUpdater(doc, b) ==
    LET city == b.city
        s1 == Replace(doc, <<SEARCH_TERM>>, city)
        s2 == SubChain(s1, <<"<title>", "</title>">>,
                       <<"<title>", "The Titan Software Guild: ">> \o city
                       \o <<" Deployment Hub", "</title>">>)
        s3 == IF CountChain(s2, <<"<p class=mission-text>", "</p>">>) >= 2
              THEN Replace(s2, FamousText(city), b.summary)
              ELSE s2
        s4 == Replace(s3, <<"75F Humidity: 45% | **2:44 PM CDT**">>,
                      <<"Warm\\ and\\ Cloudless\\ <span>Check\\ local\\ weather\\ for\\ details\\.</span>">>)
        s5 == PoiLoop(s4, poi_map, city)
        s6 == SubChain(s5, <<"id=deploy-lat value=", "'">>,
                       Expand("id=deploy-lat value=", b.lat.chars, "'"))
        s7 == SubChain(s6, <<"id=deploy-lon value=", "'">>,
                       Expand("id=deploy-lon value=", b.lon.chars, "'"))
    IN IF AfterGroupOne(b.lat.chars) = "error" \/ AfterGroupOne(b.lon.chars) = "error"
       THEN [raised |-> TRUE, doc |-> <<>>]
       ELSE [raised |-> FALSE, doc |-> s7]

(* ------------------------ new_website_deployer ------------------------- *)
business_sections ==
    << <<"barbers", "<h3>Barbershops</h3>">>,
       <<"coffee_shops", "<h3>Coffee Shops</h3>">>,
       <<"diners_cafes", "<h3>Diners & Cafes</h3>">>,
       <<"bars", "<h3>Local Bars & Pubs</h3>">>,
       <<"libraries", "<h3>Libraries</h3>">>,
       <<"attractions_amusements", "<h3>Attractions & Amusements</h3>">> >>

\* the section written for a category (address, phone and link are left out)
BusinessSection(title, businesses) ==
    <<title, "<ul class=business-list>">>
    \o Flatten([i \in DOMAIN businesses |->
                   <<"<li>", "<strong>">> \o businesses[i] \o <<"</strong>", "</li>">>])
    \o <<"</ul>">>

RECURSIVE SectionLoop(_, _, _)
SectionLoop(s, sections, bundle) ==
    IF sections = <<>> THEN s
    ELSE LET section_title == Head(sections)[2]
             listed == process_business_data_enhanced(bundle.elements, Head(sections)[1],
                                                      bundle.city)
         IN SectionLoop(SubChain(s, <<section_title, "</ul>">>,
                                 BusinessSection(section_title, listed)),
                        Tail(sections), bundle)

\* the Nexus Point section: the first of the three patterns that is found is
\* replaced everywhere; otherwise the plain title is replaced
NexusPoint(s, place, wiki_summary) ==
    LET new_nexus_section ==
            <<"<section id=paoli-ok>", "<h2>", "The Nexus Point: ">> \o place
            \o <<"</h2>", "<p>">> \o wiki_summary \o <<"</p>", "</section>">>
        whole == <<"<section id=paoli-ok>", "<h2>", "</h2>", "<p>", "</p>", "</section>">>
        block == <<"<section id=paoli-ok>", "</section>">>
    IN IF Search(s, whole) THEN SubChain(s, whole, new_nexus_section)
       ELSE IF Search(s, block) THEN SubChain(s, block, new_nexus_section)
       ELSE IF SearchRun(s, "The Nexus Point: ") THEN SubRun(s, "The Nexus Point: ", new_nexus_section)
       ELSE Replace(s, <<"The Nexus Point: ", "Paoli", ", ", "Oklahoma">>,
                    <<"The Nexus Point: ">> \o place)

\* update_html_template, lines 405-514
RenderDeployer(doc, b) ==
    LET place == b.city \o <<", ", b.state>>
        r1 == Replace(doc, <<"Paoli", ", ", "Oklahoma">>, place)
        r2 == Replace(r1, <<"Paoli", ", ", "OK">>, place)
        r3 == Replace(r2, <<"Ardmore", ", ", "Oklahoma">>, place)
        r4 == Replace(r3, <<"Ardmore", ", ", "OK">>, place)
        r5 == Replace(r4, <<"Paoli">>, b.city)
        f1 == SubValue(r5, <<"Latitude", ": ">>, Numbers, <<"deg N">>,
                       <<"Latitude", ": ", b.lat.fixed2, "deg N">>)
        f2 == SubValue(f1, <<"Longitude", ": ">>, Numbers, <<"deg W">>,
                       <<"Longitude", ": ", b.lon.absfixed2, "deg W">>)
        t1 == SubValue(f2, <<"timeZone: '">>, TimeZones, <<"'">>,
                       <<"timeZone: '", b.timezone, "'">>)
        n1 == NexusPoint(t1, place, b.summary)
        w1 == SubValue(n1, <<"const lat = ">>, Numbers, <<";">>, <<"const lat = ", b.lat.str, ";">>)
        w2 == SubValue(w1, <<"const lon = ">>, Numbers, <<";">>, <<"const lon = ", b.lon.str, ";">>)
        w3 == SubChain(w2, <<"//", "Latitude">>, <<"//", " ">> \o place \o <<" ", "Latitude">>)
        w4 == SubChain(w3, <<"//", "Longitude">>, <<"//", " ">> \o place \o <<" ", "Longitude">>)
    IN [raised |-> FALSE, doc |-> SectionLoop(w4, business_sections, b)]

(* ------------------------------ the calls ------------------------------ *)
\* the template's original city token, per script
CityToken(fn) == IF fn = "deployer" THEN "Paoli" ELSE IF fn = "weather" THEN "OKC" ELSE SEARCH_TERM

\* the segments base documents are made of
Segments(fn) ==
    CASE fn = "weather" ->
            { <<"Oklahoma City">>, <<"OKC">>, ParagraphOKC, <<"35.4676">>, <<"-97.5164">>,
              <<"<!-- LIBRARIES_PLACEHOLDER -->">>, <<"<!-- BARBERS_PLACEHOLDER -->">>,
              <<"<!-- OSM_CITATION_PLACEHOLDER -->">>, <<"text">> }
      [] fn = "updater" ->
            { <<SEARCH_TERM>>, <<"<title>", "text", "</title>">>,
              <<"<p class=mission-text>", "text", "</p>">>,
              <<"<p class=mission-text>">> \o FamousText(<<SEARCH_TERM>>) \o <<"</p>">>,
              <<"75F Humidity: 45% | **2:44 PM CDT**">>,
              <<"<ul class=library-list>", "<li>", "text", "</li>", "</ul>">>,
              <<"id=deploy-lat value=", "35.4822", "'">>,
              <<"id=deploy-lon value=", "-97.5215", "'">>,
              <<"text">> }
      [] OTHER ->
            { <<"Paoli", ", ", "Oklahoma">>, <<"Paoli">>, <<"Ardmore", ", ", "OK">>,
              <<"Latitude", ": ", "34.83", "deg N">>,
              <<"timeZone: '", "America/Chicago", "'">>,
              <<"<section id=paoli-ok>", "<h2>", "The Nexus Point: ", "Paoli", ", ", "Oklahoma",
                "</h2>", "<p>", "text", "</p>", "</section>">>,
              <<"<h2>", "The Nexus Point: ", "Paoli", ", ", "Oklahoma", "</h2>">>,
              <<"<h3>Barbershops</h3>", "<ul class=business-list>", "<li>", "text", "</li>", "</ul>">>,
              <<"const lat = ", "34.83", ";">>,
              <<"//", " ", "Paoli", " ", "Latitude">>,
              <<"text">> }

BaseDocuments(fn) == {Flatten(q) : q \in SeqsUpTo(Segments(fn), MaxSegments)}

\* narratives, with and without the template's original city token
Narratives(fn) == { <<"summary">>, <<"near ", CityToken(fn), ".">> }

\* places results: none, a place, a place named after the original city
Places(fn) ==
    { <<>>, <<Element(TRUE, TRUE, <<"x">>)>>, <<Element(TRUE, TRUE, <<CityToken(fn), " Cuts">>)>> }

\* city names, without and with the template's original city token
CityNames(fn) == { <<"Tulsa">>, <<"New ", CityToken(fn)>> }

RenderCalls ==
    UNION { [fn : {fn}, doc : BaseDocuments(fn), city : CityNames(fn), state : {"Texas"},
             lat : IF fn = "updater" THEN Latitudes
                   ELSE {c \in Latitudes : c.str \in {"35.4822", "-33.8688"}},
             lon : IF fn = "updater" THEN Longitudes
                   ELSE {c \in Longitudes : c.str = "-97.5215"},
             timezone : {"America/New_York"},
             summary : Narratives(fn),
             elements : IF fn = "updater" THEN {<<>>} ELSE Places(fn)]
            : fn \in Programs }

InitRender ==
    /\ AtRest
    /\ arg \in RenderCalls
    /\ res = <<>>
    /\ fpc = "input"

\* The document is rendered, and the rendered document is rendered again
\* with the same bundle (not when the first rendering raised).
Rendered(once) == [once |-> once, twice |-> once]

R_Weather ==
    /\ arg.fn = "weather"
    /\ \/ /\ fpc = "input"
          /\ res' = Rendered(RenderWeather(arg.doc, arg))
          /\ fpc' = IF res'.once.raised THEN "done" ELSE "once"
       \/ /\ fpc = "once"
          /\ res' = [res EXCEPT !.twice = RenderWeather(res.once.doc, arg)]
          /\ fpc' = "done"
    /\ UNCHANGED <<run, arg>>

R_Updater ==
    /\ arg.fn = "updater"
    /\ \/ /\ fpc = "input"
          /\ res' = Rendered(RenderUpdater(arg.doc, arg))
          /\ fpc' = IF res'.once.raised THEN "done" ELSE "once"
       \/ /\ fpc = "once"
          /\ res' = [res EXCEPT !.twice = RenderUpdater(res.once.doc, arg)]
          /\ fpc' = "done"
    /\ UNCHANGED <<run, arg>>

R_Deployer ==
    /\ arg.fn = "deployer"
    /\ \/ /\ fpc = "input"
          /\ res' = Rendered(RenderDeployer(arg.doc, arg))
          /\ fpc' = IF res'.once.raised THEN "done" ELSE "once"
       \/ /\ fpc = "once"
          /\ res' = [res EXCEPT !.twice = RenderDeployer(res.once.doc, arg)]
          /\ fpc' = "done"
    /\ UNCHANGED <<run, arg>>

NextRender == R_Weather \/ R_Updater \/ R_Deployer

SpecRender == InitRender /\ [][NextRender]_vars

(* ========================== destination names ========================== *)
\* The destination name is computed from the city string alone; it is
\* studied for pairs of city strings.
MaxNameLen == 3

\* the characters of a city string: a capital, a small letter, a space, a
\* hyphen
NameChars == {"A", "a", " ", "-"}

Requests == SeqsUpTo(NameChars, MaxNameLen)

NameCalls == [fn : Programs, a : Requests, b : Requests]

InitNames ==
    /\ AtRest
    /\ arg \in NameCalls
    /\ res = <<>>
    /\ fpc = "input"

\* the repository name each script derives for the two city strings
N_RepoName ==
    /\ fpc = "input"
    /\ res' = [a |-> RepoName(arg.fn, arg.a), b |-> RepoName(arg.fn, arg.b)]
    /\ fpc' = "done"
    /\ UNCHANGED <<run, arg>>

NextNames == N_RepoName

SpecNames == InitNames /\ [][NextNames]_vars

(* ============================== narrative ============================== *)
\* The narrative lookup of each script, studied one call at a time for a
\* request "City-State" and every answer of the provider to the two search
\* terms a script may use: the city alone, and the city with its state.
Terms == {"city", "city_state"}

\* an answer of the summary provider: the call raised, an error status, a
\* page without 'extract', a short extract, the extract of a
\* disambiguation page, a long extract
Answers == {"exception", "status", "noextract", "short", "stub", "long"}

\* the extract of an answer that has one
Extract(a) ==
    CASE a = "short" -> <<"City", ".">>
      [] a = "stub" -> <<"City", " may refer to:">>
      [] OTHER -> <<"City", " is a city in ", "State", ". It has a long history.">>

SourceWikipedia == " (Source: Wikipedia)"

\* what a lookup gives: the text, the search terms tried in order, and the
\* term whose extract was taken ("none" for a text made by the script)
Narrative(text, tried, term) == [text |-> text, tried |-> tried, term |-> term]

RECURSIVE QueryLoop(_, _, _)
\* weather_updater: the loop over wikipedia_queries
QueryLoop(queries, answers, tried) ==
    IF queries = <<>>
    THEN Narrative(<<"City", " is the current focal point ... in the area.", SourceWikipedia>>,
                   tried, "none")
    ELSE LET q == Head(queries)
             a == answers[q]
         IN IF a \in {"short", "stub", "long"}
            THEN Narrative(Extract(a) \o <<SourceWikipedia>>, Append(tried, q), q)
            ELSE QueryLoop(Tail(queries), answers, Append(tried, q))

\* weather_updater.get_wikipedia_summary: the whole line first, then the city
get_wikipedia_summary_weather(answers) ==
    QueryLoop(<<"city_state", "city">>, answers, <<>>)

\* new_website_deployer.get_wikipedia_summary: one term, "{city}, {state}"
get_wikipedia_summary_deployer(answers) ==
    LET a == answers["city_state"]
    IN CASE a \in {"exception", "status"} ->
              Narrative(<<"City", ", ", "State", " is a community with unique local character ...">>,
                        <<"city_state">>, "none")
         [] a = "noextract" ->
              Narrative(<<"City", ", ", "State", " is a location with rich local history and community.">>,
                        <<"city_state">>, "none")
         [] OTHER -> Narrative(Extract(a), <<"city_state">>, "city_state")

\* new_website_updater.get_wikipedia_summary: wikipedia.summary of the city;
\* a missing page, a disambiguation page and every other exception give the
\* welcome text
get_wikipedia_summary_updater(answers) ==
    LET a == answers["city"]
    IN IF a \in {"short", "long"}
       THEN Narrative(Extract(a), <<"city">>, "city")
       ELSE Narrative(<<"Welcome to ", "City", "! ... The Titan Software Guild is the future.">>,
                      <<"city">>, "none")

NarrativeCalls == [fn : Programs, answers : [Terms -> Answers]]

InitNarrative ==
    /\ AtRest
    /\ arg \in NarrativeCalls
    /\ res = <<>>
    /\ fpc = "input"

S_Weather ==
    /\ fpc = "input" /\ arg.fn = "weather"
    /\ res' = get_wikipedia_summary_weather(arg.answers)
    /\ fpc' = "done"
    /\ UNCHANGED <<run, arg>>

S_Deployer ==
    /\ fpc = "input" /\ arg.fn = "deployer"
    /\ res' = get_wikipedia_summary_deployer(arg.answers)
    /\ fpc' = "done"
    /\ UNCHANGED <<run, arg>>

S_Updater ==
    /\ fpc = "input" /\ arg.fn = "updater"
    /\ res' = get_wikipedia_summary_updater(arg.answers)
    /\ fpc' = "done"
    /\ UNCHANGED <<run, arg>>

NextNarrative == S_Weather \/ S_Deployer \/ S_Updater

SpecNarrative == InitNarrative /\ [][NextNarrative]_vars

(* ============================= properties ============================== *)
\* the run is between two cities, or over
BetweenCities == pc \in {"main", "loop", "finished"}
\* the destination name of the city that ended last
PrevName == RepoName(prog, cities[idx - 1])

\* C1: for every city request and every outcome of the geocoding provider
\* the resolver returns a populated coordinate pair: it never raises and
\* never returns "no location", so the city's pipeline goes on past it.
C1_ResolveAlwaysLocates ==
    /\ fault # "resolver"
    /\ loc # "none"

\* C2: for every category and every places result (no elements, some, many,
\* with or without names, with repeated names) the listing made for the
\* category has exactly three entries.
C2_ExactlyThreeListings ==
    fpc = "done" => /\ ~res.raised
                    /\ Len(res.items) = 3

\* C3: rendering is idempotent: for every base document and every bundle,
\* rendering the rendered document again with the same bundle gives exactly
\* the first output, also when the narrative or a listing holds the
\* template's original city token.
C3_RenderIdempotent ==
    (fpc = "done" /\ ~res.once.raised) =>
        /\ ~res.twice.raised
        /\ res.twice.doc = res.once.doc

C5_SecondPublishUpdates ==
    (BetweenCities /\ idx > 1 /\ status[idx - 1] = "ok" /\ hadDoc) =>
        /\ repos[PrevName].doc = idx - 1
        /\ lastWrite.file = "index" /\ lastWrite.op = "update"
        /\ lastWrite.sha > 0 /\ lastWrite.sha = lastWrite.cur

\* C6: without the credential the run makes no network call, and once it
\* has left its first step it has aborted with a fatal error.
C6_NoCallWithoutCredential ==
    ~token => /\ calls = {}
              /\ pc # "main" => (pc = "aborted" /\ fatal)

\* C7: in the scripts that loop over a city list, a failure while one city
\* is processed is caught at the loop of main: when the run is over, every
\* city after a city that failed has been processed.
C7_FailureDoesNotStopRun ==
    (prog # "deployer" /\ entry = "main" /\ pc \in {"finished", "aborted"}) =>
        \A i, k \in 1..Len(cities) :
            (i < k /\ status[i] \in {"failed", "skipped", "crashed"}) => status[k] # "pending"

\* C8: when the destination was created by someone else between the lookup
\* and the create call, publish counts that as success and writes the
\* rendered document to the destination.
C8_CreateRaceIsSuccess ==
    (raced /\ BetweenCities /\ idx > 1) =>
        /\ status[idx - 1] = "ok"
        /\ repos[PrevName].doc = idx - 1

\* C9: between two consecutive places-provider calls of one city at least
\* the configured 5 seconds are slept, whether the earlier call succeeded
\* or failed.
C9_PlacesCallsPaced ==
    placesGap # <<>> => placesGap[1] >= OVERPASS_CALL_DELAY_SECONDS

\* C9 witness: a places call that follows a failed places call
C9_CallAfterFailedCall ==
    placesGap # <<>> /\ placesGap[2] = "fail"

C11_RegionFromTable ==
    (/\ prog = "deployer" /\ ~BetweenCities
     /\ geo \in GeoOutcomes \ {"ok"}
     /\ SplitDash(City)[2] \in KnownStates) => loc = "region"

\* C11 witness: the provider answered 403 for a line whose state is in the
\* table, and the state's coordinates were taken
C11_RateLimitedKnownState ==
    /\ prog = "deployer" /\ pc = "d_weather"
    /\ geo = "403" /\ SplitDash(City)[2] \in KnownStates
    /\ loc = "region"

\* a line that names no state of the table: it has no hyphen, or one hyphen
\* and a state the table lacks
NoRegion(c) ==
    LET parts == SplitDash(c)
    IN \/ Len(parts) = 1
       \/ Len(parts) = 2 /\ parts[2] \notin KnownStates

\* C12: in the deployer, a city whose line names no known state and whose
\* location did not come from the geocoding provider (it gave no usable
\* result) has the default coordinates, and neither reading the line nor
\* resolving it ended the city.
C12_DefaultWhenNoRegion ==
    (/\ prog = "deployer" /\ pc \in {"main", "finished"} /\ idx > 1
     /\ NoRegion(cities[idx - 1]) /\ loc # "exact")
        => /\ loc = "default"
           /\ fault \notin {"reader", "resolver"}

\* C13: a places lookup that failed, or whose answer holds an element without
\* tags, does not abort the city: the pipeline is not left by an exception of
\* the aggregation.
C13_LookupFailureDoesNotAbort ==
    (lastPlaces # "none" /\ (tagless \/ lastPlaces = "fail"))
        => ~(pc = "aborted" /\ fault = "aggregator")

\* a document that holds the target of no substitution rule
NoTargets(doc) == \A i \in DOMAIN doc : doc[i] = "text"

\* C14: rendering a document in which no rule finds its target does not
\* raise and gives the document back unchanged.
C14_RulesTotal ==
    (fpc # "input" /\ NoTargets(arg.doc)) =>
        /\ ~res.once.raised
        /\ res.once.doc = arg.doc

\* C15: the render step makes no network call: the time zone provider, which
\* only update_html_template calls, is never called.
C15_RenderMakesNoCall == "timezone" \notin calls

\* the files of one publish of the updater
AllUpdaterFiles == {UpdaterFiles[k] : k \in DOMAIN UpdaterFiles}

\* C16: in a publish of the updater the request to enable serving is sent
\* only when index.html and the three other files have been written in this
\* publish; and when the answer is 409 (already enabled) and no later call
\* raised, the publish completes without an error.
C16_ServingAfterFiles ==
    (prog = "updater" /\ serving # <<>>) =>
        /\ wrote = AllUpdaterFiles
        /\ (/\ serving[1] = "409"
            /\ \A i \in DOMAIN serving : serving[i] \notin {"exception", "hang"})
               => (pc \in {"loop", "finished"} /\ status[idx - 1] = "ok" /\ fault = "none")

\* C16 witness: serving was already enabled (409), the configuration was
\* put again, and the publish completed
C16_AlreadyEnabled ==
    /\ prog = "updater" /\ pc = "loop"
    /\ serving = <<"409", "204", "ok">>
    /\ wrote = AllUpdaterFiles
    /\ status[idx - 1] = "ok"

\* C17: every file write of the updater and of the weather script is an
\* update carrying the file's current version token when the file exists,
\* and a create when it does not; no update goes without a token and no
\* create is sent for a file that the lookup found.
C17_WriteMatchesLookup ==
    (prog \in {"updater", "weather"} /\ lastWrite.op # "none") =>
        /\ lastWrite.cur > 0 => (lastWrite.op = "update" /\ lastWrite.sha = lastWrite.cur)
        /\ lastWrite.cur = 0 => lastWrite.op = "create"
        /\ lastWrite.op = "update" => lastWrite.sha > 0
        /\ lastWrite.found => lastWrite.op # "create"

\* a city string without its spaces and in small letters
Normalized(s) == Lower(DropChar(s, " "))

\* C18: two city strings that differ only in letter case or in spaces get
\* the same destination name.
C18_NameNormalized ==
    (fpc = "done" /\ Normalized(arg.a) = Normalized(arg.b)) => res.a = res.b

\* C19: the scripts that loop over a city list start the cities in the order
\* of the input (no city is started before a city of an earlier line), and
\* when a run that had its credential is over, every line has been processed.
C19_EveryLineInOrder ==
    (prog # "deployer" /\ entry = "main") =>
        /\ \A i, k \in 1..Len(cities) :
               (i < k /\ status[k] # "pending") => status[i] # "pending"
        /\ (token /\ pc \in {"finished", "aborted"}) =>
               \A i \in 1..Len(cities) : status[i] # "pending"

\* C20: every run over a finite city list comes to its end (the script
\* returns or exits), whatever the providers answer and also when one never
\* answers.
C20_RunTerminates == <>(pc \in {"finished", "aborted"})

\* the categories the running script queries, in the order of its calls
QueriedCategories == IF prog = "weather" THEN WeatherCategories ELSE DeployerCategories

\* C21: when the places query of a category gave nothing (fewer than three
\* usable listings), the next places query is for the same category again.
C21_ShortResultRetried ==
    (pc \in {"d_places", "w_places"} /\ j > 1 /\ lastPlaces = "fail")
        => QueriedCategories[j] = QueriedCategories[j - 1]

\* C22: the narrative ends with a source citation, when it is an extract of
\* the provider and when it is the text made by the script.
C22_NarrativeCited ==
    fpc = "done" => (res.text # <<>> /\ res.text[Len(res.text)] = SourceWikipedia)

\* an extract the lookup may accept: long enough and no disambiguation page
Acceptable(a) == a = "long"

\* C23: the lookup tries the city alone first and the city with its state
\* second; the narrative is the extract of the first term whose answer is
\* acceptable, and when neither is, a text made by the script that names
\* the city.
C23_FirstAcceptableExtract ==
    fpc = "done" =>
        /\ res.tried # <<>> /\ res.tried[1] = "city"
        /\ Len(res.tried) >= 2 => res.tried[2] = "city_state"
        /\ res.term # "none" => Acceptable(arg.answers[res.term])
        /\ Acceptable(arg.answers["city"]) => res.term = "city"
        /\ (~Acceptable(arg.answers["city"]) /\ Acceptable(arg.answers["city_state"]))
               => res.term = "city_state"
        /\ res.term = "none" => \E i \in DOMAIN res.text : res.text[i] = "City"

\* the files of one publish of the deployer
AllDeployerFiles == {DeployerFiles[k] : k \in DOMAIN DeployerFiles}

\* C24: a run of the deployer that processed its city leaves exactly one
\* record, success or error, and the record is the error record whenever a
\* file write of the run failed.
C24_OutcomeRecorded ==
    (prog = "deployer" /\ pc \in {"main", "finished"} /\ idx > 1) =>
        /\ record \in {"success", "error"}
        /\ (record = "success") <=> (status[idx - 1] = "ok")
        /\ (lastWrite.op # "none" /\ wrote # AllDeployerFiles) => record = "error"

\* the names the provider's elements carry, stripped, empty ones left out
RealNames == {BusinessName(arg.elements[i]) : i \in DOMAIN arg.elements} \ {<<>>}

\* the names of the fallback businesses of the call's category
FallbackNames ==
    LET fallbacks == get_business_fallbacks(arg.category, arg.city)
    IN {fallbacks[i] : i \in DOMAIN fallbacks}

\* C25: in a listing of the deployer all names differ from one another, also
\* when an element of the provider carries the name of a fallback; when the
\* provider gives one usable name the listing is that name and then two
\* fallbacks.
C25_NamesDistinct ==
    (fpc = "done" /\ arg.fn = "deployer") =>
        /\ \A i, k \in DOMAIN res.items : i # k => res.items[i] # res.items[k]
        /\ Cardinality(RealNames) = 1 =>
               /\ Len(res.items) = BusinessesKept
               /\ res.items[1] \in RealNames
               /\ \A i \in 2..Len(res.items) : res.items[i] \in FallbackNames \ RealNames

\* C25 witness: the one name the provider gave is the name of a fallback of
\* the category, and the listing is complete
C25_RealNamedLikeFallback ==
    /\ fpc = "done" /\ arg.fn = "deployer" /\ arg.category = "barbers"
    /\ RealNames = {<<"Professional Cuts">>}
    /\ Len(res.items) = BusinessesKept
    /\ res.items[1] = <<"Professional Cuts">>

\* the positions of the provider's elements that bring a new non-empty name
NewNameAt ==
    {i \in DOMAIN arg.elements :
        /\ BusinessName(arg.elements[i]) # <<>>
        /\ \A k \in 1..(i - 1) : BusinessName(arg.elements[k]) # BusinessName(arg.elements[i])}

\* the m-th of these positions
NthNewName(m) == CHOOSE i \in NewNameAt : Cardinality({k \in NewNameAt : k <= i}) = m

\* C26: a listing of the deployer begins with the names of the first (at
\* most three) elements of the provider that bring a new non-empty name, in
\* the provider's order; what follows are fallbacks, and fallbacks are there
\* only when every such element is listed.
C26_RealFirstThenFallbacks ==
    (fpc = "done" /\ arg.fn = "deployer") =>
        LET n == Min(Cardinality(NewNameAt), BusinessesKept)
        IN /\ Len(res.items) >= n
           /\ \A m \in 1..n : res.items[m] = BusinessName(arg.elements[NthNewName(m)])
           /\ \A m \in (n + 1)..Len(res.items) : res.items[m] \in FallbackNames \ RealNames
           /\ Len(res.items) > n => n = Cardinality(NewNameAt)

\* C26 witness: four elements of which two bring a new name, listed in
\* their order and followed by one fallback
C26_TwoRealOneFallback ==
    /\ fpc = "done" /\ arg.fn = "deployer"
    /\ Len(arg.elements) = 4 /\ Cardinality(NewNameAt) = 2
    /\ BusinessName(arg.elements[1]) = <<>>
    /\ Len(res.items) = 3
    /\ res.items[3] \in FallbackNames

\* the pieces of t stand somewhere in s
Contains(s, t) == \E i \in 1..Len(s) : Occurs(s, t, i)

\* the description of Oklahoma City that the narrative rule of a script is
\* to replace
NarrativeBlock(fn) == IF fn = "weather" THEN ParagraphOKC ELSE FamousText(<<SEARCH_TERM>>)

\* C27: when the base document holds the description of Oklahoma City, the
\* document rendered by the weather script or the updater holds the
\* bundle's narrative.
C27_NarrativeReplacesBlock ==
    (/\ fpc # "input" /\ arg.fn \in {"weather", "updater"} /\ ~res.once.raised
     /\ Contains(arg.doc, NarrativeBlock(arg.fn)))
        => Contains(res.once.doc, arg.summary)

\* the files the running script writes in one publish, in the order of the writes
PublishFiles ==
    IF prog = "updater" THEN UpdaterFiles
    ELSE IF prog = "deployer" THEN DeployerFiles ELSE <<"index">>

\* C28: a publish that began to write files goes on to the last of them,
\* also when a write failed: when the city is over, the write made last was
\* that of the last file.
C28_WritesGoOnAfterFailure ==
    (BetweenCities /\ idx > 1 /\ lastWrite.op # "none")
        => lastWrite.file = PublishFiles[Len(PublishFiles)]

\* C29: a run of the deployer ends with the success record only when
\* index.html was written to the repository in that run.
C29_SuccessMeansDocumentWritten ==
    (prog = "deployer" /\ pc \in {"main", "finished"} /\ idx > 1 /\ record = "success")
        => "index" \in wrote

\* C30: the weather script comes to user.create_repo only when the lookup of
\* the repository reported it absent.
C30_CreateOnlyAfterAbsentLookup ==
    (prog = "weather" /\ pc = "w_create") => lookup = "absent"

====
